---------------------------- MODULE Spec2Model ----------------------------
(***************************************************************************)
(* Model of the asynchronous execution and recurrence-scheduling core of   *)
(* AIConnect: the recurrence function _calculate_next_run, the poller and  *)
(* execute_scheduled_post (app/workers/scheduled_posts.py), the schedule   *)
(* update endpoint (app/api/v1/scheduled_posts.py) and the content         *)
(* pipeline execute_content_creation (app/workers/content_creation.py).    *)
(*                                                                         *)
(* Three specifications share the variables:                               *)
(*   CalcSpec  - applies _calculate_next_run to bounded inputs;            *)
(*   Spec      - one inbound request through the content pipeline, with    *)
(*               retries and duplicate deliveries of its job;              *)
(*   SchedSpec - one schedule under the poller, execute_scheduled_post     *)
(*               jobs, their retries, the update endpoint and the clock.   *)
(***************************************************************************)
EXTENDS Integers, Sequences, FiniteSets, TLC

VARIABLES
    calc,           \* CalcSpec: the call of _calculate_next_run and its result
    inbox,          \* Spec: the inbound request not yet handled by execute_agent
    env,            \* Spec: persistent collaborators' state (knowledge base, integrations)
    execution,      \* Spec: the AgentExecution row of the request
    jobs,           \* Spec: content.create_execution messages in the queue or at a worker
    deliveries,     \* Spec: attempts started and duplicate deliveries made so far
    returned,       \* Spec: what the attempt that ended last returned or raised
    content_items,  \* Spec: number of ContentItem rows of the execution, by platform
    now,            \* SchedSpec: wall clock, a calendar time
    post,           \* SchedSpec: the ScheduledPost row
    sjobs,          \* SchedSpec: scheduled_posts.execute_scheduled messages, queued or at a worker
    dispatched,     \* SchedSpec: number of messages the poller has enqueued
    created,        \* SchedSpec: number of AgentExecution rows created for the schedule
    enqueued        \* SchedSpec: number of content.create_execution messages enqueued for it

calcVars  == <<calc>>
pipeVars  == <<inbox, env, execution, jobs, deliveries, returned, content_items>>
schedVars == <<now, post, sjobs, dispatched, created, enqueued>>
vars      == <<calc, inbox, env, execution, jobs, deliveries, returned, content_items,
               now, post, sjobs, dispatched, created, enqueued>>

(***************************************************************************)
(* Bounds of the model.                                                    *)
(***************************************************************************)
NumYears == 2         \* calendar years of fromTime, starting with a non-leap year
MaxConfigDays == 2    \* configured days_of_week / days_of_month per schedule

(***************************************************************************)
(* Calendar arithmetic of datetime (proleptic Gregorian, as in CPython).   *)
(***************************************************************************)
Min(S) == CHOOSE x \in S : \A y \in S : x <= y

IsLeap(y) == (y % 4 = 0) /\ ((y % 100 # 0) \/ (y % 400 = 0))

DaysInMonth(y, m) ==
    IF m = 2 THEN (IF IsLeap(y) THEN 29 ELSE 28)
    ELSE IF m \in {4, 6, 9, 11} THEN 30 ELSE 31

RECURSIVE DaysBeforeMonth(_, _)
DaysBeforeMonth(y, m) ==
    IF m = 1 THEN 0 ELSE DaysBeforeMonth(y, m - 1) + DaysInMonth(y, m - 1)

DaysBeforeYear(y) ==
    365 * (y - 1) + ((y - 1) \div 4) - ((y - 1) \div 100) + ((y - 1) \div 400)

ToOrdinal(t) == DaysBeforeYear(t.year) + DaysBeforeMonth(t.year, t.month) + t.day

\* date.weekday(): 0 = Monday ... 6 = Sunday
Weekday(t) == (ToOrdinal(t) + 6) % 7

\* A datetime: sub = 0 when second and microsecond are zero, 1 otherwise.
DateTime(y, m, d, h, mi, s) ==
    [year |-> y, month |-> m, day |-> d, hour |-> h, minute |-> mi, sub |-> s]

\* Python's None for an Optional[datetime]
None == DateTime(0, 0, 0, 0, 0, 0)

MinuteOfDay(t) == (t.hour * 60 + t.minute) * 2 + t.sub

\* datetime.__lt__ / __le__
Before(a, b) ==
    \/ ToOrdinal(a) < ToOrdinal(b)
    \/ ToOrdinal(a) = ToOrdinal(b) /\ MinuteOfDay(a) < MinuteOfDay(b)

NotAfter(a, b) == a = b \/ Before(a, b)

\* t + timedelta(days=1)
NextDay(t) ==
    IF t.day < DaysInMonth(t.year, t.month) THEN [t EXCEPT !.day = t.day + 1]
    ELSE IF t.month < 12 THEN [t EXCEPT !.day = 1, !.month = t.month + 1]
    ELSE [t EXCEPT !.day = 1, !.month = 1, !.year = t.year + 1]

\* t + timedelta(days=k)
RECURSIVE AddDays(_, _)
AddDays(t, k) == IF k = 0 THEN t ELSE AddDays(NextDay(t), k - 1)

\* datetime.replace(day=d) raises ValueError when the day does not exist
ValidDay(y, m, d) == d \in 1..DaysInMonth(y, m)

\* sorted(S) of a collection of integers
RECURSIVE Sorted(_)
Sorted(S) == IF S = {} THEN <<>> ELSE <<Min(S)>> \o Sorted(S \ {Min(S)})

(***************************************************************************)
(* _calculate_next_run of the worker.  cfg = [hour, minute, days_of_week,  *)
(* days_of_month]; the result is None for one_time and unknown types.      *)
(***************************************************************************)
AtConfiguredTime(t, cfg) == [t EXCEPT !.hour = cfg.hour, !.minute = cfg.minute, !.sub = 0]

\* Variant of DailyNextRun with the comparison < in place of <=: the configured
\* time equal to current_time is then returned as it is
DailyNextRunStrict(cfg, current_time) ==
    LET next_run == AtConfiguredTime(current_time, cfg)
    IN  IF Before(next_run, current_time) THEN AddDays(next_run, 1) ELSE next_run

\* Variant of DailyNextRun that always rolls to the next day
DailyNextRunTomorrow(cfg, current_time) ==
    AddDays(AtConfiguredTime(current_time, cfg), 1)

DailyNextRun(cfg, current_time) ==
    LET next_run == AtConfiguredTime(current_time, cfg)
    IN  IF NotAfter(next_run, current_time) THEN AddDays(next_run, 1) ELSE next_run

\* Variant of WeeklyScan with the comparison >= in place of >: a day configured
\* for the weekday of current_time is taken
RECURSIVE WeeklyScanInclusive(_, _, _, _)
WeeklyScanInclusive(days, i, cfg, current_time) ==
    IF i > Len(days) THEN None
    ELSE IF days[i] >= Weekday(current_time)
         THEN AddDays(AtConfiguredTime(current_time, cfg), days[i] - Weekday(current_time))
         ELSE WeeklyScanInclusive(days, i + 1, cfg, current_time)

\* for day in sorted(days_of_week): if day > current_weekday: ...; break
RECURSIVE WeeklyScan(_, _, _, _)
WeeklyScan(days, i, cfg, current_time) ==
    IF i > Len(days) THEN None
    ELSE IF days[i] > Weekday(current_time)
         THEN AddDays(AtConfiguredTime(current_time, cfg), days[i] - Weekday(current_time))
         ELSE WeeklyScan(days, i + 1, cfg, current_time)

\* Variant of WeeklyNextRun that does not look at the rest of the week
WeeklyNextRunFollowingWeek(cfg, current_time) ==
    AddDays(AtConfiguredTime(current_time, cfg),
            (7 - Weekday(current_time)) + Min(cfg.days_of_week))

WeeklyNextRun(cfg, current_time) ==
    LET this_week == WeeklyScan(Sorted(cfg.days_of_week), 1, cfg, current_time)
        first_day == Min(cfg.days_of_week)
    IN  IF this_week # None THEN this_week
        ELSE AddDays(AtConfiguredTime(current_time, cfg),
                     (7 - Weekday(current_time)) + first_day)

\* Variant of MonthlyScan that clamps a day the month does not have to the last
\* day of the month instead of skipping it
RECURSIVE MonthlyScanClamping(_, _, _, _)
MonthlyScanClamping(days, i, cfg, current_time) ==
    IF i > Len(days) THEN None
    ELSE IF days[i] > current_time.day
         THEN [AtConfiguredTime(current_time, cfg) EXCEPT
                  !.day = Min({days[i], DaysInMonth(current_time.year, current_time.month)})]
         ELSE MonthlyScanClamping(days, i + 1, cfg, current_time)

\* for day in sorted(days_of_month): if day > current_day: try replace(day=day); break
\*                                   except ValueError: continue
RECURSIVE MonthlyScan(_, _, _, _)
MonthlyScan(days, i, cfg, current_time) ==
    IF i > Len(days) THEN None
    ELSE IF days[i] > current_time.day
            /\ ValidDay(current_time.year, current_time.month, days[i])
         THEN [AtConfiguredTime(current_time, cfg) EXCEPT !.day = days[i]]
         ELSE MonthlyScan(days, i + 1, cfg, current_time)

\* Variant of MonthlyNextRun that keeps the year when December rolls over
MonthlyNextRunSameYear(cfg, current_time) ==
    LET this_month == MonthlyScan(Sorted(cfg.days_of_month), 1, cfg, current_time)
        first_day  == Min(cfg.days_of_month)
        next_month == [AtConfiguredTime(current_time, cfg) EXCEPT
                          !.month = (current_time.month % 12) + 1, !.day = 1]
        last_day   == DaysInMonth(next_month.year, next_month.month)
    IN  IF this_month # None THEN this_month
        ELSE [next_month EXCEPT !.day = Min({first_day, last_day})]

MonthlyNextRun(cfg, current_time) ==
    LET this_month == MonthlyScan(Sorted(cfg.days_of_month), 1, cfg, current_time)
        first_day  == Min(cfg.days_of_month)
        next_month == IF current_time.month = 12
                      THEN [AtConfiguredTime(current_time, cfg) EXCEPT
                                !.year = current_time.year + 1, !.month = 1, !.day = 1]
                      ELSE [AtConfiguredTime(current_time, cfg) EXCEPT
                                !.month = current_time.month + 1, !.day = 1]
        last_day   == DaysInMonth(next_month.year, next_month.month)
    IN  IF this_month # None THEN this_month
        ELSE IF ValidDay(next_month.year, next_month.month, first_day)
             THEN [next_month EXCEPT !.day = first_day]
             ELSE [next_month EXCEPT !.day = Min({first_day, last_day})]

calculate_next_run(schedule_type, cfg, current_time) ==
    IF schedule_type = "one_time" THEN None
    ELSE IF schedule_type = "daily" THEN DailyNextRun(cfg, current_time)
    ELSE IF schedule_type = "weekly" THEN WeeklyNextRun(cfg, current_time)
    ELSE IF schedule_type = "monthly" THEN MonthlyNextRun(cfg, current_time)
    ELSE None

(***************************************************************************)
(* CalcSpec: _calculate_next_run applied to bounded inputs.                *)
(***************************************************************************)
ScheduleTypes == {"one_time", "daily", "weekly", "monthly"}
Years == 2023..(2022 + NumYears)
FromHours == {9}
FromMinutes == {30}
ConfigHours == {9, 10}
ConfigMinutes == {0, 30}
MonthDayChoices == {1, 15, 29, 30, 31}

FromTimes ==
    {DateTime(y, m, d, h, mi, s) :
        y \in Years, m \in 1..12, d \in 1..31, h \in FromHours, mi \in FromMinutes, s \in {0, 1}}

ValidDateTime(t) == ValidDay(t.year, t.month, t.day)

DaySets(S) == {D \in SUBSET S : D # {} /\ Cardinality(D) <= MaxConfigDays}

\* schedule_config: the defaults of .get() stand for the fields a type does not use
Configs(schedule_type) ==
    [hour : ConfigHours, minute : ConfigMinutes,
     days_of_week  : IF schedule_type = "weekly" THEN DaySets(0..6) ELSE {{0}},
     days_of_month : IF schedule_type = "monthly" THEN DaySets(MonthDayChoices) ELSE {{1}}]

CalcIdle == [schedule_type |-> "one_time",
             cfg |-> [hour |-> 9, minute |-> 0, days_of_week |-> {0}, days_of_month |-> {1}],
             from |-> None, result |-> None, done |-> FALSE]

Compute ==
    /\ ~calc.done
    /\ calc.from # None
    /\ calc' = [calc EXCEPT !.done = TRUE,
                            !.result = calculate_next_run(calc.schedule_type, calc.cfg, calc.from)]
    /\ UNCHANGED <<pipeVars, schedVars>>


(***************************************************************************)
(* Spec: the content pipeline.  One inbound request is handled by          *)
(* execute_agent, which creates the AgentExecution row and enqueues        *)
(* content.create_execution; workers run execute_content_creation.         *)
(***************************************************************************)
MaxPlatforms == 2      \* length of the requested platforms list
MaxDuplicates == 1     \* duplicate deliveries of a content.create_execution message
MaxContentItems == 2   \* ContentItem rows of one platform
ContentMaxRetries == 1 \* max_retries of content.create_execution

PlatformNames == {"twitter", "tiktok"}
PlatformLists == UNION {[1..n -> PlatformNames] : n \in 0..MaxPlatforms}
Names(platforms) == {platforms[i] : i \in DOMAIN platforms}

ContentRequests ==
    [request_type : {"create_content"}, platforms : PlatformLists,
     include_images : BOOLEAN, include_video : BOOLEAN]
OtherRequests ==
    [request_type : {"create_campaign", "generate_report"}, platforms : {<<>>},
     include_images : {FALSE}, include_video : {FALSE}]
Requests == ContentRequests \cup OtherRequests
NoRequest == [request_type |-> "none", platforms |-> <<>>,
              include_images |-> FALSE, include_video |-> FALSE]

\* Persistent state of the collaborators, fixed during a behaviour:
\*   knowledge_base - the tenant has documents, so retrieval returns chunks;
\*   serpapi        - SERPAPI_KEY is configured, so keyword research works;
\*   image_provider - the LLM provider implements image generation;
\*   integration    - the tenant's SocialIntegration row of a platform:
\*                    none, active but without the parameters or token
\*                    posting needs ("incomplete"), or active and complete.
IntegrationStates == {"none", "incomplete", "active"}
Envs(req) ==
    [knowledge_base : BOOLEAN, serpapi : BOOLEAN,
     image_provider : IF req.include_images THEN BOOLEAN ELSE {TRUE},
     integration : {f \in [PlatformNames -> IntegrationStates] :
                        \A p \in PlatformNames \ Names(req.platforms) : f[p] = "none"}]
NoEnv == [knowledge_base |-> FALSE, serpapi |-> FALSE, image_provider |-> TRUE,
          integration |-> [p \in PlatformNames |-> "none"]]

\* Instants read from datetime.now(): the k-th reading of the attempt-th
\* attempt started (0: the API request).  Later attempts read later instants;
\* Null is NULL.
Stamp(attempt, k) == 10 * attempt + k
Null == 0
\* execution_time_ms is derived from the two instants it is computed from
Duration(started_at, completed_at) == <<started_at, completed_at>>
NoDuration == <<>>

NoResult == [kind |-> "null"]
NoError == "null"
GenerationError == "Content generation returned empty result for all platforms"
ExceptionText == "exception text"
NotImplementedText == "Request type not yet implemented"

AbsentExecution ==
    [status |-> "absent", request_type |-> "none", request_data |-> NoRequest,
     started_at |-> Null, completed_at |-> Null, execution_time_ms |-> NoDuration,
     result |-> NoResult, error_message |-> NoError]

NoContentItems == [p \in PlatformNames |-> 0]

\* A content.create_execution message: queued, or running at a worker (the
\* attempt has committed status = running).  retries is the retry count in
\* its headers, attempt the number of the attempt that is running it.
Message(retries) == [pc |-> "queued", retries |-> retries, attempt |-> 0]

NoDeliveries == [attempts |-> 0, duplicates |-> 0]

\* How an attempt ended: the value it returned ("success", "generation_failed"),
\* with content_generation_passed, the local counter of generated texts at the
\* return, or the exception leaving it ("retry": self.retry re-enqueued the
\* message, "raised": the retries are used up).
Return(value, passed) == [value |-> value, content_generation_passed |-> passed]
NoReturn == [value |-> "none"]

\* seq without its j-th element
Remove(seq, j) == [k \in 1..(Len(seq) - 1) |-> IF k < j THEN seq[k] ELSE seq[k + 1]]

\* Variant of update_execution that does not store the error message
update_execution_status_only(exe, status, error_message, at) ==
    IF status \in {"completed", "failed", "cancelled"}
    THEN [exe EXCEPT !.status = status, !.completed_at = at]
    ELSE [exe EXCEPT !.status = status]

\* AgentExecutionService.update_execution(status=..., error_message=...)
update_execution(exe, status, error_message, at) ==
    LET timed == IF status = "running" /\ exe.started_at = Null
                 THEN [exe EXCEPT !.status = status, !.started_at = at]
                 ELSE IF status \in {"completed", "failed", "cancelled"}
                 THEN [exe EXCEPT !.status = status, !.completed_at = at,
                                  !.execution_time_ms =
                                      IF exe.started_at # Null
                                      THEN Duration(exe.started_at, at)
                                      ELSE exe.execution_time_ms]
                 ELSE [exe EXCEPT !.status = status]
    IN  IF error_message # NoError THEN [timed EXCEPT !.error_message = error_message]
        ELSE timed

\* POST /agent/execute
ExecuteAgent ==
    /\ inbox # NoRequest
    /\ LET queued == [AbsentExecution EXCEPT !.status = "queued",
                                             !.request_type = inbox.request_type,
                                             !.request_data = inbox]
       IN  IF inbox.request_type = "create_content"
           THEN /\ execution' = queued
                /\ jobs' = Append(jobs, Message(0))
           ELSE IF inbox.request_type = "create_campaign"
           THEN \* queued for execute_campaign_creation, which is outside this model
                /\ execution' = queued
                /\ jobs' = jobs
           ELSE /\ execution' = update_execution(queued, "failed", NotImplementedText,
                                                 Stamp(0, 1))
                /\ jobs' = jobs
    /\ inbox' = NoRequest
    /\ UNCHANGED <<env, deliveries, returned, content_items, calcVars, schedVars>>

\* Variant of HandlerWrite that leaves completed_at and the duration alone
HandlerWriteUnstamped(exe, attempt) ==
    [exe EXCEPT !.status = "failed", !.error_message = ExceptionText]

\* The except-branch of execute_content_creation writes failed to the row ...
HandlerWrite(exe, attempt) ==
    [exe EXCEPT !.status = "failed", !.error_message = ExceptionText,
                !.completed_at = Stamp(attempt, 3),
                !.execution_time_ms =
                    IF exe.started_at # Null
                    THEN Duration(exe.started_at, Stamp(attempt, 3))
                    ELSE exe.execution_time_ms]

\* Variant of Retry that re-enqueues the message once more than max_retries
RetryOnceMore(j) ==
    IF jobs[j].retries <= ContentMaxRetries
    THEN [jobs EXCEPT ![j] = Message(jobs[j].retries + 1)]
    ELSE Remove(jobs, j)

\* ... and calls self.retry, which re-enqueues the message until max_retries is
\* used up and re-raises the exception after that
Retry(j) ==
    IF jobs[j].retries < ContentMaxRetries
    THEN [jobs EXCEPT ![j] = Message(jobs[j].retries + 1)]
    ELSE Remove(jobs, j)

Raised(j) ==
    [value |-> IF jobs[j].retries < ContentMaxRetries THEN "retry" ELSE "raised"]

\* Variant of ClaimWrite that stamps started_at on every claim
ClaimWriteRestamps(exe, attempt) ==
    [exe EXCEPT !.status = "running", !.started_at = Stamp(attempt, 1)]

\* execute_content_creation, first commit: status = running, started_at if unset
ClaimWrite(exe, attempt) ==
    [exe EXCEPT !.status = "running",
                !.started_at = IF exe.started_at = Null
                               THEN Stamp(attempt, 1) ELSE exe.started_at]

Claim(j) ==
    /\ jobs[j].pc = "queued"
    /\ deliveries' = [deliveries EXCEPT !.attempts = @ + 1]
    /\ execution' = ClaimWrite(execution, deliveries'.attempts)
    /\ jobs' = [jobs EXCEPT ![j].pc = "running", ![j].attempt = deliveries'.attempts]
    /\ UNCHANGED <<inbox, env, returned, content_items, calcVars, schedVars>>

\* the session or the first select raises before status = running is committed
ClaimRaises(j) ==
    /\ jobs[j].pc = "queued"
    /\ deliveries' = [deliveries EXCEPT !.attempts = @ + 1]
    /\ execution' = HandlerWrite(execution, deliveries'.attempts)
    /\ jobs' = Retry(j)
    /\ returned' = Raised(j)
    /\ UNCHANGED <<inbox, env, content_items, calcVars, schedVars>>

(***************************************************************************)
(* The stages of execute_content_creation after the claim.  The transient  *)
(* outcomes of the collaborators are the parameters:                       *)
(*   gen[i] - generation for platforms[i] returned non-empty text (FALSE:  *)
(*            it raised or returned empty text); gen[0] is the generic     *)
(*            generation used when no platform is requested;               *)
(*   img, vid - outcome of image / video generation and upload;            *)
(*   pub[i] - the publisher reported success for platforms[i] (FALSE: it   *)
(*            reported failure or the iteration raised).                   *)
(***************************************************************************)
Task(name, status, details) == [task |-> name, status |-> status, details |-> details]

Count(f) == Cardinality({i \in DOMAIN f : f[i]})

\* the positions i..Len(f) at which the boolean sequence f holds, in order
RECURSIVE Positions(_, _)
Positions(f, i) ==
    IF i > Len(f) THEN <<>>
    ELSE (IF f[i] THEN <<i>> ELSE <<>>) \o Positions(f, i + 1)

\* Steps 1 and 2: RAG retrieval and keyword research, neither is fatal
RetrievalTasks ==
    << Task("RAG Retrieval", IF env.knowledge_base THEN "PASSED" ELSE "FAILED", <<>>),
       Task("Keyword Research", IF env.serpapi THEN "PASSED" ELSE "FAILED", <<>>) >>

\* Step 3: per-platform generation
GenChoices(platforms) ==
    [(IF platforms = <<>> THEN {0} ELSE DOMAIN platforms) -> BOOLEAN]

\* platform_contents: the platforms that have content (keys of the dict)
PlatformContents(platforms, gen) ==
    IF platforms = <<>> THEN {}   \* the generic text is copied to no platform
    ELSE {platforms[i] : i \in {k \in DOMAIN platforms : gen[k]}}

content_generation_passed(platforms, gen) ==
    IF platforms = <<>> THEN (IF gen[0] THEN 1 ELSE 0) ELSE Count(gen)

content_generation_failed(platforms, gen) ==
    IF platforms = <<>> THEN (IF gen[0] THEN 0 ELSE 1) ELSE Len(platforms) - Count(gen)

GenerationTasks(platforms, gen) ==
    (IF content_generation_passed(platforms, gen) > 0
     THEN <<Task("Content Generation", "PASSED", <<content_generation_passed(platforms, gen)>>)>>
     ELSE <<>>)
    \o
    (IF content_generation_failed(platforms, gen) > 0
     THEN <<Task("Content Generation", "PARTIAL", <<content_generation_failed(platforms, gen)>>)>>
     ELSE <<>>)

\* Step 4: media generation, once per execution
ImageChoices(req) ==
    IF ~req.include_images THEN {"not_requested"}
    ELSE IF env.image_provider THEN {"uploaded", "failed"} ELSE {"not_implemented"}

VideoChoices(req) ==
    IF req.include_video THEN {"uploaded", "failed"} ELSE {"not_requested"}

MediaTasks(img, vid) ==
    << Task("Image Generation",
            IF img = "uploaded" THEN "PASSED"
            ELSE IF img = "failed" THEN "FAILED" ELSE "SKIPPED", <<>>),
       Task("Video Generation",
            IF vid = "uploaded" THEN "PASSED"
            ELSE IF vid = "failed" THEN "FAILED" ELSE "SKIPPED", <<>>) >>

\* Step 5: the publish loop.  Posts(i): iteration i reaches the publisher.
Posts(platforms, contents, vid, i) ==
    /\ platforms[i] \in contents
    /\ env.integration[platforms[i]] = "active"
    /\ platforms[i] = "tiktok" => vid = "uploaded"

PubChoices(platforms, contents, vid) ==
    {pub \in [DOMAIN platforms -> BOOLEAN] :
        \A i \in DOMAIN platforms : pub[i] => Posts(platforms, contents, vid, i)}

Item(platform, status, error) == [platform |-> platform, status |-> status, error |-> error]

\* Variant of ChannelOutcome without the check for generated content
ChannelOutcomeWithoutContentCheck(platforms, contents, vid, pub, i) ==
    IF env.integration[platforms[i]] = "none"
    THEN Item(platforms[i], "skipped", "No active integration found")
    ELSE IF env.integration[platforms[i]] = "incomplete"
    THEN Item(platforms[i], "failed", "parameter or access_token not found")
    ELSE IF platforms[i] = "tiktok" /\ vid # "uploaded"
    THEN Item(platforms[i], "failed", "TikTok requires a video URL")
    ELSE IF pub[i]
    THEN Item(platforms[i], "published", "")
    ELSE Item(platforms[i], "failed", "publisher error")

\* Variant of ChannelOutcome that hands a channel without an active
\* integration to the publisher, which fails
ChannelOutcomeWithoutIntegrationCheck(platforms, contents, vid, pub, i) ==
    IF platforms[i] \notin contents
    THEN Item(platforms[i], "skipped", "No content generated for this platform")
    ELSE IF env.integration[platforms[i]] # "active"
    THEN Item(platforms[i], "failed", "parameter or access_token not found")
    ELSE IF platforms[i] = "tiktok" /\ vid # "uploaded"
    THEN Item(platforms[i], "failed", "TikTok requires a video URL")
    ELSE IF pub[i]
    THEN Item(platforms[i], "published", "")
    ELSE Item(platforms[i], "failed", "publisher error")

\* the entry iteration i appends to created_content_items
ChannelOutcome(platforms, contents, vid, pub, i) ==
    IF platforms[i] \notin contents
    THEN Item(platforms[i], "skipped", "No content generated for this platform")
    ELSE IF env.integration[platforms[i]] = "none"
    THEN Item(platforms[i], "skipped", "No active integration found")
    ELSE IF env.integration[platforms[i]] = "incomplete"
    THEN Item(platforms[i], "failed", "parameter or access_token not found")
    ELSE IF platforms[i] = "tiktok" /\ vid # "uploaded"
    THEN Item(platforms[i], "failed", "TikTok requires a video URL")
    ELSE IF pub[i]
    THEN Item(platforms[i], "published", "")
    ELSE Item(platforms[i], "failed", "publisher error")

\* Variant of created_content_items in which a failed channel ends the loop:
\* the outcomes up to and including the first failed one
created_content_itemsUntilFailure(platforms, contents, vid, pub) ==
    LET failed == {i \in DOMAIN platforms :
                      ChannelOutcome(platforms, contents, vid, pub, i).status = "failed"}
        last   == IF failed = {} THEN Len(platforms)
                  ELSE CHOOSE i \in failed : \A k \in failed : i <= k
    IN  [i \in 1..last |-> ChannelOutcome(platforms, contents, vid, pub, i)]

created_content_items(platforms, contents, vid, pub) ==
    [i \in DOMAIN platforms |-> ChannelOutcome(platforms, contents, vid, pub, i)]

posting_passed(pub) == Count(pub)

\* incremented only when the publisher was reached and did not succeed
posting_failed(platforms, contents, vid, pub) ==
    Cardinality({i \in DOMAIN platforms : Posts(platforms, contents, vid, i) /\ ~pub[i]})

posting_skipped(platforms, contents) ==
    Cardinality({i \in DOMAIN platforms :
                    platforms[i] \notin contents \/ env.integration[platforms[i]] = "none"})

PostingTasks(platforms, contents, vid, pub) ==
    LET passed  == posting_passed(pub)
        failed  == posting_failed(platforms, contents, vid, pub)
        skipped == posting_skipped(platforms, contents)
    IN  IF passed > 0 \/ failed > 0 \/ skipped > 0
        THEN <<Task("Platform Posting",
                    IF failed > 0 \/ skipped > 0 THEN "PARTIAL" ELSE "PASSED",
                    <<passed, failed, skipped>>)>>
        ELSE <<>>

\* the ContentItem rows the loop commits, one per successful publish:
\* the number of rows it adds for platform p
NewContentItems(platforms, pub, p) ==
    Cardinality({i \in DOMAIN platforms : platforms[i] = p /\ pub[i]})

\* Variant of Result that counts the media generated, uploaded or not
ResultCountingGenerated(platforms, gen, img, vid, pub) ==
    LET contents == PlatformContents(platforms, gen)
        items    == created_content_items(platforms, contents, vid, pub)
        posted   == Positions([i \in DOMAIN items |-> items[i].status = "published"], 1)
    IN  [kind |-> "result",
         platform_contents |-> contents,
         content_items |-> items,
         images_generated |-> IF img \in {"uploaded", "failed"} THEN 1 ELSE 0,
         videos_generated |-> IF vid \in {"uploaded", "failed"} THEN 1 ELSE 0,
         platforms_posted |-> [k \in DOMAIN posted |-> platforms[posted[k]]],
         tasks |-> RetrievalTasks \o GenerationTasks(platforms, gen) \o MediaTasks(img, vid)
                   \o PostingTasks(platforms, contents, vid, pub)]

\* Step 6: execution.result
Result(platforms, gen, img, vid, pub) ==
    LET contents == PlatformContents(platforms, gen)
        items    == created_content_items(platforms, contents, vid, pub)
        posted   == Positions([i \in DOMAIN items |-> items[i].status = "published"], 1)
    IN  [kind |-> "result",
         platform_contents |-> contents,
         content_items |-> items,
         images_generated |-> IF img = "uploaded" THEN 1 ELSE 0,
         videos_generated |-> IF vid = "uploaded" THEN 1 ELSE 0,
         platforms_posted |-> [k \in DOMAIN posted |-> platforms[posted[k]]],
         tasks |-> RetrievalTasks \o GenerationTasks(platforms, gen) \o MediaTasks(img, vid)
                   \o PostingTasks(platforms, contents, vid, pub)]

\* Variant of FinalWrite that completes the record only when every channel
\* outcome is published and fails it otherwise
FinalWriteAllOrNothing(exe, attempt, result) ==
    [exe EXCEPT !.status = IF \A i \in DOMAIN result.content_items :
                                 result.content_items[i].status = "published"
                           THEN "completed" ELSE "failed",
                !.completed_at = Stamp(attempt, 2),
                !.result = result]

FinalWrite(exe, attempt, result) ==
    [exe EXCEPT !.status = "completed",
                !.completed_at = Stamp(attempt, 2),
                !.execution_time_ms =
                    IF exe.started_at # Null
                    THEN Duration(exe.started_at, Stamp(attempt, 2))
                    ELSE exe.execution_time_ms,
                !.result = result]

\* Variant of GenerationFailedWrite that sets the status and no error_message
GenerationFailedWriteSilent(exe, attempt) ==
    [exe EXCEPT !.status = "failed", !.completed_at = Stamp(attempt, 2)]

GenerationFailedWrite(exe, attempt) ==
    [exe EXCEPT !.status = "failed",
                !.error_message = GenerationError,
                !.completed_at = Stamp(attempt, 2),
                !.execution_time_ms =
                    IF exe.started_at # Null
                    THEN Duration(exe.started_at, Stamp(attempt, 2))
                    ELSE exe.execution_time_ms]


\* the RAG helper's session cannot be opened: the exception leaves the task body
RetrievalRaises(j) ==
    /\ jobs[j].pc = "running"
    /\ execution' = HandlerWrite(execution, jobs[j].attempt)
    /\ jobs' = Retry(j)
    /\ returned' = Raised(j)
    /\ UNCHANGED <<inbox, env, deliveries, content_items, calcVars, schedVars>>

\* no platform has content: the row is set failed and the task returns
GenerationFails(j) ==
    /\ jobs[j].pc = "running"
    /\ LET platforms == execution.request_data.platforms
       IN  \E gen \in GenChoices(platforms) :
             /\ PlatformContents(platforms, gen) = {}
             /\ \/ /\ execution' = GenerationFailedWrite(execution, jobs[j].attempt)
                   /\ jobs' = Remove(jobs, j)
                   /\ returned' = Return("generation_failed",
                                         content_generation_passed(platforms, gen))
                \/ \* the commit of the failed row raises
                   /\ execution' = HandlerWrite(execution, jobs[j].attempt)
                   /\ jobs' = Retry(j)
                   /\ returned' = Raised(j)
    /\ UNCHANGED <<inbox, env, deliveries, content_items, calcVars, schedVars>>

\* some platform has content: media, publish loop and finalization.
\* fin = "ok": the final commit and refresh succeed;
\* fin = "commit": the final select or commit raises, the row keeps its values;
\* fin = "refresh": the commit succeeds and db.refresh raises after it.
PublishAndFinalize(j) ==
    /\ jobs[j].pc = "running"
    /\ LET req == execution.request_data
           platforms == req.platforms
       IN  \E gen \in GenChoices(platforms), img \in ImageChoices(req), vid \in VideoChoices(req) :
             LET contents == PlatformContents(platforms, gen)
             IN  /\ contents # {}
                 /\ \E pub \in PubChoices(platforms, contents, vid),
                       fin \in {"ok", "commit", "refresh"} :
                      LET final == FinalWrite(execution, jobs[j].attempt,
                                              Result(platforms, gen, img, vid, pub))
                      IN  /\ content_items' = [p \in PlatformNames |->
                                 content_items[p] + NewContentItems(platforms, pub, p)]
                          /\ \A p \in PlatformNames : content_items'[p] <= MaxContentItems
                          /\ IF fin = "ok"
                             THEN /\ execution' = final
                                  /\ jobs' = Remove(jobs, j)
                                  /\ returned' = Return("success",
                                         content_generation_passed(platforms, gen))
                             ELSE /\ execution' = HandlerWrite(
                                        IF fin = "refresh" THEN final ELSE execution,
                                        jobs[j].attempt)
                                  /\ jobs' = Retry(j)
                                  /\ returned' = Raised(j)
    /\ UNCHANGED <<inbox, env, deliveries, calcVars, schedVars>>

\* an attempt raises, before or after its claim, and the commit of the
\* except-branch raises as well: that exception is logged, the row keeps its
\* values and self.retry is called
HandlerWriteRaises(j) ==
    /\ jobs[j].pc \in {"queued", "running"}
    /\ deliveries' = IF jobs[j].pc = "queued"
                     THEN [deliveries EXCEPT !.attempts = @ + 1] ELSE deliveries
    /\ jobs' = Retry(j)
    /\ returned' = Raised(j)
    /\ UNCHANGED <<inbox, env, execution, content_items, calcVars, schedVars>>

\* task_time_limit: the worker process that runs the attempt is killed when
\* the hard limit fires.  No except-branch runs and self.retry is not called;
\* the message was acknowledged when it was received (task_acks_late is
\* False), so the broker does not deliver it again.
HardLimitKill(j) ==
    /\ jobs[j].pc = "running"
    /\ jobs' = Remove(jobs, j)
    /\ returned' = [value |-> "killed"]
    /\ UNCHANGED <<inbox, env, execution, deliveries, content_items,
                   calcVars, schedVars>>

\* at-least-once delivery: after the attempts of the message have ended, the
\* queue delivers the message the API dispatched once more
DuplicateDelivery ==
    /\ execution.request_type = "create_content"
    /\ jobs = <<>>
    /\ deliveries.attempts > 0
    /\ deliveries.duplicates < MaxDuplicates
    /\ deliveries' = [deliveries EXCEPT !.duplicates = @ + 1]
    /\ jobs' = Append(jobs, Message(0))
    /\ UNCHANGED <<inbox, env, execution, returned, content_items,
                   calcVars, schedVars>>

(***************************************************************************)
(* SchedSpec: one ScheduledPost row, the poller check_scheduled_posts, the *)
(* jobs execute_scheduled_post with their retries, PUT /scheduled-posts    *)
(* and the wall clock.                                                     *)
(***************************************************************************)
MaxDays == 2           \* days the wall clock advances beyond the creation of the schedule
MaxDispatches == 2     \* scheduled_posts.execute_scheduled messages the poller enqueues
SchedMaxRetries == 3   \* max_retries of scheduled_posts.execute_scheduled
FailureThreshold == 5  \* failed_runs at which a schedule is marked failed

\* _calculate_next_run of the API module, used at creation and update
RECURSIVE ApiMonthlyScan(_, _, _)
ApiMonthlyScan(days, i, start_date) ==
    IF i > Len(days) THEN None
    ELSE IF days[i] > start_date.day /\ ValidDay(start_date.year, start_date.month, days[i])
         THEN [start_date EXCEPT !.day = days[i]]
         ELSE ApiMonthlyScan(days, i + 1, start_date)

api_calculate_next_run(schedule_type, cfg, start_date, current) ==
    LET next_run == AtConfiguredTime(start_date, cfg)
    IN  IF schedule_type = "one_time" THEN start_date
        ELSE IF schedule_type = "daily"
        THEN (IF NotAfter(next_run, current) THEN AddDays(next_run, 1) ELSE next_run)
        ELSE IF schedule_type = "weekly"
        THEN WeeklyNextRun(cfg, start_date)
        ELSE IF schedule_type = "monthly"
        THEN LET this_month == ApiMonthlyScan(Sorted(cfg.days_of_month), 1, start_date)
                 first_day  == Min(cfg.days_of_month)
                 next_month == IF start_date.month = 12
                               THEN [start_date EXCEPT !.year = start_date.year + 1,
                                                       !.month = 1, !.day = 1]
                               ELSE [start_date EXCEPT !.month = start_date.month + 1,
                                                       !.day = 1]
                 last_day   == DaysInMonth(next_month.year, next_month.month)
             IN  IF this_month # None THEN this_month
                 ELSE [next_month EXCEPT !.day = Min({first_day, last_day})]
        ELSE next_run

StartNow == DateTime(2024, 1, 30, 12, 0, 0)
StartDates == {DateTime(2024, 1, 30, 8, 0, 0), DateTime(2024, 1, 31, 20, 0, 0)}
EndDates == {None, DateTime(2024, 2, 1, 12, 0, 0)}
ScheduleConfig == [hour |-> 9, minute |-> 0, days_of_week |-> {2, 4}, days_of_month |-> {1, 31}]

PostData ==
    [schedule_type : ScheduleTypes, schedule_config : {ScheduleConfig},
     platforms : {<<>>, <<"twitter">>}, include_images : {FALSE}, include_video : {FALSE},
     start_date : StartDates, end_date : EndDates]

\* POST /scheduled-posts: the row create_scheduled_post inserts at time `current`
create_scheduled_post(post_data, current) ==
    [schedule_type |-> post_data.schedule_type,
     schedule_config |-> post_data.schedule_config,
     platforms |-> post_data.platforms,
     include_images |-> post_data.include_images,
     include_video |-> post_data.include_video,
     start_date |-> post_data.start_date,
     end_date |-> post_data.end_date,
     next_run_at |-> api_calculate_next_run(post_data.schedule_type, post_data.schedule_config,
                                            post_data.start_date, current),
     last_run_at |-> None,
     is_active |-> TRUE,
     status |-> "active",
     total_runs |-> 0, successful_runs |-> 0, failed_runs |-> 0]

NoPost ==
    [schedule_type |-> "none", schedule_config |-> ScheduleConfig, platforms |-> <<>>,
     include_images |-> FALSE, include_video |-> FALSE,
     start_date |-> None, end_date |-> None, next_run_at |-> None, last_run_at |-> None,
     is_active |-> FALSE, status |-> "none",
     total_runs |-> 0, successful_runs |-> 0, failed_runs |-> 0]

\* the WHERE clause of the poller's query
Due(p, current) ==
    /\ p.is_active
    /\ p.status = "active"
    /\ NotAfter(p.next_run_at, current)
    /\ (IF p.end_date = None THEN TRUE ELSE NotAfter(current, p.end_date))

\* The attributes of the loaded ScheduledPost object that the tracking update
\* of execute_scheduled_post reads back
Loaded(p) ==
    [last_run_at |-> p.last_run_at, next_run_at |-> p.next_run_at,
     total_runs |-> p.total_runs, successful_runs |-> p.successful_runs]

\* A scheduled_posts.execute_scheduled message: queued, or dispatching (the
\* AgentExecution row is committed; the job holds the ScheduledPost object it
\* loaded, `row`, and the time it read, `at`).  due is the next_run_at the
\* poller found due when it enqueued the message.
SchedMessage(due) ==
    [pc |-> "queued", retries |-> 0, due |-> due, row |-> Loaded(NoPost), at |-> None]

\* Variant of CheckScheduledPosts that counts a schedule without platforms as
\* a failed run
CheckScheduledPostsCounting ==
    /\ Due(post, now)
    /\ IF post.platforms = <<>>
       THEN /\ post' = [post EXCEPT !.status = "failed", !.is_active = FALSE,
                                    !.failed_runs = post.failed_runs + 1,
                                    !.total_runs = post.total_runs + 1]
            /\ UNCHANGED <<sjobs, dispatched>>
       ELSE /\ dispatched < MaxDispatches
            /\ dispatched' = dispatched + 1
            /\ sjobs' = Append(sjobs, SchedMessage(post.next_run_at))
            /\ post' = post
    /\ UNCHANGED <<calcVars, pipeVars, now, created, enqueued>>

\* check_scheduled_posts, one tick of Celery Beat
CheckScheduledPosts ==
    /\ Due(post, now)
    /\ IF post.platforms = <<>>
       THEN /\ post' = [post EXCEPT !.status = "failed", !.is_active = FALSE]
            /\ UNCHANGED <<sjobs, dispatched>>
       ELSE /\ dispatched < MaxDispatches
            /\ dispatched' = dispatched + 1
            /\ sjobs' = Append(sjobs, SchedMessage(post.next_run_at))
            /\ post' = post
    /\ UNCHANGED <<calcVars, pipeVars, now, created, enqueued>>

\* The except-branch of execute_scheduled_post: count the failure on a freshly
\* loaded row ...
SchedHandlerWrite(p) ==
    LET counted == [p EXCEPT !.failed_runs = p.failed_runs + 1,
                             !.total_runs = p.total_runs + 1]
    IN  IF counted.failed_runs >= FailureThreshold
        THEN [counted EXCEPT !.status = "failed", !.is_active = FALSE]
        ELSE counted

\* ... then self.retry: re-enqueue until max_retries is used up, re-raise after
SchedRetry(j) ==
    IF sjobs[j].retries < SchedMaxRetries
    THEN [sjobs EXCEPT ![j].pc = "queued", ![j].retries = sjobs[j].retries + 1,
                       ![j].row = Loaded(NoPost), ![j].at = None]
    ELSE Remove(sjobs, j)

\* Variant of Begin without the check of is_active and status
BeginUnchecked(j) ==
    /\ sjobs[j].pc = "queued"
    /\ IF post.platforms = <<>>
       THEN /\ post' = [post EXCEPT !.status = "failed", !.is_active = FALSE]
            /\ sjobs' = Remove(sjobs, j)
            /\ UNCHANGED created
       ELSE /\ created' = created + 1
            /\ sjobs' = [sjobs EXCEPT ![j].pc = "dispatching", ![j].row = Loaded(post),
                                  ![j].at = now]
            /\ UNCHANGED post
    /\ UNCHANGED <<calcVars, pipeVars, now, dispatched, enqueued>>

\* execute_scheduled_post up to the commit of the new AgentExecution row
Begin(j) ==
    /\ sjobs[j].pc = "queued"
    /\ IF ~post.is_active \/ post.status # "active"
       THEN /\ sjobs' = Remove(sjobs, j)
            /\ UNCHANGED <<post, created>>
       ELSE IF post.platforms = <<>>
       THEN /\ post' = [post EXCEPT !.status = "failed", !.is_active = FALSE]
            /\ sjobs' = Remove(sjobs, j)
            /\ UNCHANGED created
       ELSE /\ created' = created + 1
            /\ sjobs' = [sjobs EXCEPT ![j].pc = "dispatching", ![j].row = Loaded(post),
                                  ![j].at = now]
            /\ UNCHANGED post
    /\ UNCHANGED <<calcVars, pipeVars, now, dispatched, enqueued>>

\* the session, the select or the insert raises: no AgentExecution row is created
BeginRaises(j) ==
    /\ sjobs[j].pc = "queued"
    /\ post' = SchedHandlerWrite(post)
    /\ sjobs' = SchedRetry(j)
    /\ UNCHANGED <<calcVars, pipeVars, now, dispatched, created, enqueued>>

\* the session has expire_on_commit=False: the job computes from the object it
\* loaded (row), and the flush writes the attributes whose value it changed
OrmSet(current, loaded, value) == IF value # loaded THEN value ELSE current

\* Variant of FinishWrite that assigns next_run_at also when _calculate_next_run
\* returns None
FinishWriteAssignsNone(p, row, at) ==
    LET next_run == calculate_next_run(p.schedule_type, p.schedule_config, at)
        ended    == \/ next_run = None
                    \/ p.end_date # None /\ Before(p.end_date, next_run)
    IN  [p EXCEPT
            !.last_run_at = at,
            !.total_runs = row.total_runs + 1,
            !.successful_runs = row.successful_runs + 1,
            !.next_run_at = next_run,
            !.status = IF ended THEN "completed" ELSE p.status,
            !.is_active = IF ended THEN FALSE ELSE p.is_active]

\* Variant of FinishWrite that compares the next occurrence with the end date
\* by >= in place of >
FinishWriteEndsEarly(p, row, at) ==
    LET next_run == calculate_next_run(p.schedule_type, p.schedule_config, at)
        ended    == \/ next_run = None
                    \/ p.end_date # None /\ ToOrdinal(p.end_date) <= ToOrdinal(next_run)
    IN  [p EXCEPT
            !.last_run_at = at,
            !.total_runs = row.total_runs + 1,
            !.successful_runs = row.successful_runs + 1,
            !.next_run_at = IF next_run # None THEN next_run ELSE p.next_run_at,
            !.status = IF ended THEN "completed" ELSE p.status,
            !.is_active = IF ended THEN FALSE ELSE p.is_active]

FinishWrite(p, row, at) ==
    LET next_run == calculate_next_run(p.schedule_type, p.schedule_config, at)
        ended    == \/ next_run = None
                    \/ p.end_date # None /\ Before(p.end_date, next_run)
    IN  [p EXCEPT
            !.last_run_at = OrmSet(p.last_run_at, row.last_run_at, at),
            !.total_runs = row.total_runs + 1,
            !.successful_runs = row.successful_runs + 1,
            !.next_run_at = IF next_run # None
                            THEN OrmSet(p.next_run_at, row.next_run_at, next_run)
                            ELSE p.next_run_at,
            !.status = IF ended THEN "completed" ELSE p.status,
            !.is_active = IF ended THEN FALSE ELSE p.is_active]

\* execute_content_creation.delay, the tracking update and the final commit
Finish(j) ==
    /\ sjobs[j].pc = "dispatching"
    /\ enqueued' = enqueued + 1
    /\ post' = FinishWrite(post, sjobs[j].row, sjobs[j].at)
    /\ sjobs' = Remove(sjobs, j)
    /\ UNCHANGED <<calcVars, pipeVars, now, dispatched, created>>

\* execute_content_creation.delay raises (broker unreachable): nothing is enqueued
DelayRaises(j) ==
    /\ sjobs[j].pc = "dispatching"
    /\ post' = SchedHandlerWrite(post)
    /\ sjobs' = SchedRetry(j)
    /\ UNCHANGED <<calcVars, pipeVars, now, dispatched, created, enqueued>>

\* the job is enqueued and the final commit of the tracking update raises
CommitRaises(j) ==
    /\ sjobs[j].pc = "dispatching"
    /\ enqueued' = enqueued + 1
    /\ post' = SchedHandlerWrite(post)
    /\ sjobs' = SchedRetry(j)
    /\ UNCHANGED <<calcVars, pipeVars, now, dispatched, created>>

\* PUT /scheduled-posts/{id} with is_active in the body
UpdateScheduledPost(is_active) ==
    /\ post.status # "none"
    /\ post' = IF is_active
               THEN [post EXCEPT !.is_active = TRUE,
                                 !.status = IF post.status = "paused" THEN "active"
                                            ELSE post.status]
               ELSE [post EXCEPT !.is_active = FALSE, !.status = "paused"]
    /\ post' # post
    /\ UNCHANGED <<calcVars, pipeVars, now, sjobs, dispatched, created, enqueued>>

\* the wall clock advances by a day
AdvanceClock ==
    /\ now # None
    /\ ToOrdinal(now) < ToOrdinal(StartNow) + MaxDays
    /\ now' = NextDay(now)
    /\ UNCHANGED <<calcVars, pipeVars, post, sjobs, dispatched, created, enqueued>>

(***************************************************************************)
(* FireSpec: a schedule that is due fires, and the content pipeline runs   *)
(* the execution the fire created.                                         *)
(***************************************************************************)
FireNow == DateTime(2024, 1, 31, 12, 0, 0)

FirePostData ==
    [schedule_type : {"one_time", "daily"}, schedule_config : {ScheduleConfig},
     platforms : {<<"twitter">>}, include_images : BOOLEAN, include_video : BOOLEAN,
     start_date : {DateTime(2024, 1, 30, 8, 0, 0)}, end_date : {None}]

\* request_data of the AgentExecution that execute_scheduled_post creates
ScheduledRequest(p) ==
    [request_type |-> "create_content", platforms |-> p.platforms,
     include_images |-> p.include_images, include_video |-> p.include_video]

\* check_scheduled_posts finds the schedule due and execute_scheduled_post runs
\* without an exception: the AgentExecution row is created, the content job is
\* enqueued and the tracking update is committed
FireScheduledPost ==
    /\ Due(post, now)
    /\ post.platforms # <<>>
    /\ execution' = [AbsentExecution EXCEPT !.status = "queued",
                                            !.request_type = "create_content",
                                            !.request_data = ScheduledRequest(post)]
    /\ jobs' = Append(jobs, Message(0))
    /\ post' = FinishWrite(post, Loaded(post), now)
    /\ dispatched' = dispatched + 1
    /\ created' = created + 1
    /\ enqueued' = enqueued + 1
    /\ UNCHANGED <<calcVars, inbox, env, deliveries, returned, content_items, now, sjobs>>

(***************************************************************************)
(* RaceSpec: a recurring schedule with an end date for which the poller    *)
(* has enqueued several jobs before the first of them started.             *)
(***************************************************************************)
RaceJobs == 3          \* messages the poller enqueued for the due occurrence

RacePostData ==
    [schedule_type : {"daily", "weekly", "monthly"}, schedule_config : {ScheduleConfig},
     platforms : {<<"twitter">>}, include_images : {FALSE}, include_video : {FALSE},
     start_date : {DateTime(2024, 1, 30, 8, 0, 0)},
     end_date : {DateTime(2024, 2, 1, 12, 0, 0)}]

(***************************************************************************)
(* The specifications.                                                     *)
(***************************************************************************)
CalcQuiet  == calc = CalcIdle
PipeQuiet  == /\ inbox = NoRequest /\ env = NoEnv /\ execution = AbsentExecution
              /\ jobs = <<>> /\ deliveries = NoDeliveries /\ returned = NoReturn
              /\ content_items = NoContentItems
SchedQuiet == /\ now = None /\ post = NoPost /\ sjobs = <<>>
              /\ dispatched = 0 /\ created = 0 /\ enqueued = 0

CalcInit ==
    /\ \E st \in ScheduleTypes, t \in {x \in FromTimes : ValidDateTime(x)} :
         \E cfg \in Configs(st) :
            calc = [schedule_type |-> st, cfg |-> cfg, from |-> t,
                    result |-> None, done |-> FALSE]
    /\ PipeQuiet
    /\ SchedQuiet

CalcNext == Compute

CalcSpec == CalcInit /\ [][CalcNext]_vars

Init ==
    /\ CalcQuiet
    /\ \E req \in Requests :
         /\ inbox = req
         /\ env \in Envs(req)
    /\ execution = AbsentExecution
    /\ jobs = <<>>
    /\ deliveries = NoDeliveries
    /\ returned = NoReturn
    /\ content_items = NoContentItems
    /\ SchedQuiet

Next ==
    \/ ExecuteAgent
    \/ DuplicateDelivery
    \/ \E j \in DOMAIN jobs : Claim(j)
    \/ \E j \in DOMAIN jobs : ClaimRaises(j)
    \/ \E j \in DOMAIN jobs : RetrievalRaises(j)
    \/ \E j \in DOMAIN jobs : GenerationFails(j)
    \/ \E j \in DOMAIN jobs : PublishAndFinalize(j)

Spec == Init /\ [][Next]_vars

\* KillSpec: the pipeline of one message, with the hard time limit
KillInit == Init

KillNext ==
    \/ ExecuteAgent
    \/ \E j \in DOMAIN jobs : Claim(j)
    \/ \E j \in DOMAIN jobs : ClaimRaises(j)
    \/ \E j \in DOMAIN jobs : RetrievalRaises(j)
    \/ \E j \in DOMAIN jobs : GenerationFails(j)
    \/ \E j \in DOMAIN jobs : PublishAndFinalize(j)
    \/ \E j \in DOMAIN jobs : HardLimitKill(j)

KillSpec == KillInit /\ [][KillNext]_vars

\* LiveSpec: the pipeline of one message when every call returns or raises
\* and the queue delivers every message and retry
LiveInit == Init

LiveNext ==
    \/ ExecuteAgent
    \/ \E j \in DOMAIN jobs : Claim(j)
    \/ \E j \in DOMAIN jobs : ClaimRaises(j)
    \/ \E j \in DOMAIN jobs : RetrievalRaises(j)
    \/ \E j \in DOMAIN jobs : GenerationFails(j)
    \/ \E j \in DOMAIN jobs : PublishAndFinalize(j)
    \/ \E j \in DOMAIN jobs : HandlerWriteRaises(j)

LiveSpec == LiveInit /\ [][LiveNext]_vars /\ WF_vars(LiveNext)

SchedInit ==
    /\ CalcQuiet
    /\ PipeQuiet
    /\ now = StartNow
    /\ \E post_data \in PostData : post = create_scheduled_post(post_data, StartNow)
    /\ sjobs = <<>>
    /\ dispatched = 0
    /\ created = 0
    /\ enqueued = 0

SchedNext ==
    \/ CheckScheduledPosts
    \/ \E j \in DOMAIN sjobs : Begin(j)
    \/ \E j \in DOMAIN sjobs : BeginRaises(j)
    \/ \E j \in DOMAIN sjobs : Finish(j)
    \/ \E j \in DOMAIN sjobs : DelayRaises(j)
    \/ \E j \in DOMAIN sjobs : CommitRaises(j)
    \/ \E is_active \in BOOLEAN : UpdateScheduledPost(is_active)
    \/ AdvanceClock

SchedSpec == SchedInit /\ [][SchedNext]_vars

RaceInit ==
    /\ CalcQuiet
    /\ PipeQuiet
    /\ now = FireNow
    /\ \E post_data \in RacePostData : post = create_scheduled_post(post_data, StartNow)
    /\ sjobs = [i \in 1..RaceJobs |-> SchedMessage(post.next_run_at)]
    /\ dispatched = RaceJobs
    /\ created = 0
    /\ enqueued = 0

RaceNext ==
    \/ \E j \in DOMAIN sjobs : Begin(j)
    \/ \E j \in DOMAIN sjobs : Finish(j)
    \/ AdvanceClock

RaceSpec == RaceInit /\ [][RaceNext]_vars

FireInit ==
    /\ CalcQuiet
    /\ now = FireNow
    /\ \E post_data \in FirePostData :
         /\ post = create_scheduled_post(post_data, StartNow)
         /\ env \in Envs(ScheduledRequest(post))
    /\ inbox = NoRequest
    /\ execution = AbsentExecution
    /\ jobs = <<>>
    /\ deliveries = NoDeliveries
    /\ returned = NoReturn
    /\ content_items = NoContentItems
    /\ sjobs = <<>>
    /\ dispatched = 0
    /\ created = 0
    /\ enqueued = 0

FireNext ==
    \/ FireScheduledPost
    \/ \E j \in DOMAIN jobs : Claim(j)
    \/ \E j \in DOMAIN jobs : ClaimRaises(j)
    \/ \E j \in DOMAIN jobs : RetrievalRaises(j)
    \/ \E j \in DOMAIN jobs : GenerationFails(j)
    \/ \E j \in DOMAIN jobs : PublishAndFinalize(j)

FireSpec == FireInit /\ [][FireNext]_vars

(***************************************************************************)
(* Properties of _calculate_next_run, checked under CalcSpec.              *)
(***************************************************************************)
Recurring == {"daily", "weekly", "monthly"}

\* C8: for daily, weekly and monthly schedules with a valid config,
\* _calculate_next_run returns a time strictly later than fromTime.
C8_StrictlyLater ==
    (calc.done /\ calc.schedule_type \in Recurring)
        => (calc.result # None /\ Before(calc.from, calc.result))

\* the configured time of day equals fromTime, so only the roll to the next
\* day makes the result later
C8_Witness ==
    /\ calc.done
    /\ calc.schedule_type = "daily"
    /\ AtConfiguredTime(calc.from, calc.cfg) = calc.from
    /\ calc.result = AddDays(calc.from, 1)

FebruaryFifteenth ==
    /\ calc.done
    /\ calc.schedule_type = "monthly"
    /\ calc.cfg.days_of_month = {31}
    /\ calc.from.month = 2
    /\ calc.from.day = 15

\* C9 as stated: monthly on day 31 from February 15 returns the last day of
\* February (28, or 29 in a leap year) at the configured time.
C9_ClampedInCurrentMonth ==
    FebruaryFifteenth
        => calc.result = DateTime(calc.from.year, 2, DaysInMonth(calc.from.year, 2),
                                  calc.cfg.hour, calc.cfg.minute, 0)

\* C9 amended: monthly on day 31 from February 15 returns March 31 of the same
\* year at the configured time: a configured day the current month does not
\* have is skipped, not clamped.
C9_SkippedInCurrentMonth ==
    FebruaryFifteenth
        => calc.result = DateTime(calc.from.year, 3, 31, calc.cfg.hour, calc.cfg.minute, 0)

C9_Witness == FebruaryFifteenth /\ IsLeap(calc.from.year) /\ calc.result.month = 3

\* C10: a monthly schedule runs next on the smallest configured day that is
\* later than fromTime's day and exists in fromTime's month; without such a
\* day, on the smallest configured day of the next calendar month (January of
\* the next year after December), clamped to that month's last day; in both
\* cases at the configured time.
C10_MonthlyNextRun ==
    (calc.done /\ calc.schedule_type = "monthly") =>
        LET t         == calc.from
            days      == calc.cfg.days_of_month
            remaining == {d \in days : d > t.day /\ d <= DaysInMonth(t.year, t.month)}
            year      == IF t.month = 12 THEN t.year + 1 ELSE t.year
            month     == IF t.month = 12 THEN 1 ELSE t.month + 1
            clamped   == IF Min(days) > DaysInMonth(year, month)
                         THEN DaysInMonth(year, month) ELSE Min(days)
        IN  calc.result =
                IF remaining # {}
                THEN DateTime(t.year, t.month, Min(remaining), calc.cfg.hour, calc.cfg.minute, 0)
                ELSE DateTime(year, month, clamped, calc.cfg.hour, calc.cfg.minute, 0)

\* from December with no configured day left in the month: the smallest
\* configured day of January of the next year
C10_Witness ==
    /\ calc.done
    /\ calc.schedule_type = "monthly"
    /\ calc.from.month = 12
    /\ calc.result.year = calc.from.year + 1
    /\ calc.result.month = 1
    /\ calc.result.day = Min(calc.cfg.days_of_month)

WednesdayTuesdayThursday ==
    /\ calc.done
    /\ calc.schedule_type = "weekly"
    /\ calc.cfg.days_of_week = {1, 3}
    /\ Weekday(calc.from) = 2

\* C11 as stated: weekly on days 1 and 3 from a Wednesday returns the day of
\* index 1 of the following week, not a day of the current week.
C11_FollowingWeek ==
    WednesdayTuesdayThursday
        => /\ Weekday(calc.result) = 1
           /\ ToOrdinal(calc.result) = ToOrdinal(calc.from) + 6

\* C11 amended: weekly on days 1 and 3 from a Wednesday returns the Thursday
\* (index 3) of the same week, the day after fromTime, at the configured time:
\* 3 is a configured day strictly greater than 2.
C11_ThursdayThisWeek ==
    WednesdayTuesdayThursday
        => /\ Weekday(calc.result) = 3
           /\ ToOrdinal(calc.result) = ToOrdinal(calc.from) + 1
           /\ calc.result.hour = calc.cfg.hour
           /\ calc.result.minute = calc.cfg.minute
           /\ calc.result.sub = 0

\* a Wednesday that is the last day of a month: the Thursday is in the next month
C11_Witness ==
    /\ WednesdayTuesdayThursday
    /\ calc.result.month # calc.from.month
    /\ calc.result.day = 1

\* C12: a weekly schedule runs next at the configured time on the smallest
\* configured weekday strictly greater than fromTime's weekday, in the same
\* week; without such a weekday, on the smallest configured weekday of the
\* following week; never on fromTime's own day.
C12_WeeklyNextRun ==
    (calc.done /\ calc.schedule_type = "weekly") =>
        LET wd        == Weekday(calc.from)
            days      == calc.cfg.days_of_week
            remaining == {d \in days : d > wd}
            ahead     == ToOrdinal(calc.result) - ToOrdinal(calc.from)
        IN  /\ calc.result.hour = calc.cfg.hour
            /\ calc.result.minute = calc.cfg.minute
            /\ calc.result.sub = 0
            /\ ahead >= 1
            /\ IF remaining # {}
               THEN /\ Weekday(calc.result) = Min(remaining)
                    /\ ahead <= 6 - wd
               ELSE /\ Weekday(calc.result) = Min(days)
                    /\ ahead \in (7 - wd)..(13 - wd)

\* configured for fromTime's weekday only, with the configured time still ahead:
\* the result is a week later
C12_Witness ==
    /\ calc.done
    /\ calc.schedule_type = "weekly"
    /\ calc.cfg.days_of_week = {Weekday(calc.from)}
    /\ Before(calc.from, AtConfiguredTime(calc.from, calc.cfg))
    /\ ToOrdinal(calc.result) = ToOrdinal(calc.from) + 7

\* C13 as stated: a daily schedule runs next at the first instant at the
\* configured time on or after fromTime.
C13_OnOrAfter ==
    (calc.done /\ calc.schedule_type = "daily") =>
        LET today == AtConfiguredTime(calc.from, calc.cfg)
        IN  calc.result = IF NotAfter(calc.from, today) THEN today ELSE AddDays(today, 1)

\* C13 amended: a daily schedule runs next at the first instant at the
\* configured time strictly after fromTime: on fromTime's date when the
\* configured time is later than fromTime, otherwise (also when it equals
\* fromTime) on the next day.
C13_StrictlyAfter ==
    (calc.done /\ calc.schedule_type = "daily") =>
        LET ahead == ToOrdinal(calc.result) - ToOrdinal(calc.from)
        IN  /\ calc.result.hour = calc.cfg.hour
            /\ calc.result.minute = calc.cfg.minute
            /\ calc.result.sub = 0
            /\ Before(calc.from, calc.result)
            /\ ahead \in {0, 1}
            /\ ahead = 0 <=> Before(calc.from, AtConfiguredTime(calc.from, calc.cfg))

\* the configured time is later on fromTime's date, the last day of a year
C13_Witness ==
    /\ calc.done
    /\ calc.schedule_type = "daily"
    /\ calc.from.month = 12 /\ calc.from.day = 31
    /\ calc.result = [calc.from EXCEPT !.hour = 10, !.minute = 0, !.sub = 0]

(***************************************************************************)
(* Properties of the content pipeline, checked under Spec.                 *)
(***************************************************************************)
\* the step in which an attempt of execute_content_creation returns `value`
Returns(value) ==
    /\ \E j \in DOMAIN jobs : jobs[j].pc = "running" /\ jobs' = Remove(jobs, j)
    /\ returned'.value = value

\* the number of channel outcomes of a result that have one of `statuses`
Outcomes(result, statuses) ==
    Cardinality({i \in DOMAIN result.content_items :
                    result.content_items[i].status \in statuses})

\* ContentItem rows, over the platforms in S / over all platforms
RECURSIVE RowsOf(_, _)
RowsOf(items, S) ==
    IF S = {} THEN 0
    ELSE LET p == CHOOSE x \in S : TRUE IN items[p] + RowsOf(items, S \ {p})

Rows(items) == RowsOf(items, PlatformNames)

\* C1: running execute_content_creation again on a record that is completed
\* is a no-op: the record (status, result, started_at, completed_at) does not
\* change and no content record is created.
C1_CompletedIsNoOp ==
    [][execution.status = "completed"
         => (execution' = execution /\ content_items' = content_items)]_vars

StatusMoves ==
    {<<"queued", "running">>, <<"running", "completed">>, <<"running", "failed">>,
     <<"running", "cancelled">>, <<"queued", "failed">>}

\* C2: the status of a record only moves queued -> running, running ->
\* completed, failed or cancelled, or queued -> failed; a completed, failed or
\* cancelled record keeps its status.
C2_StatusMoves ==
    [][(execution.status # "absent" /\ execution'.status # execution.status)
         => <<execution.status, execution'.status>> \in StatusMoves]_vars

\* C3: when an attempt returns, with channels requested the record is completed
\* if and only if a channel was published, and failed with an error message
\* otherwise; with no channel requested it is completed if content was
\* generated and failed otherwise.
C3_CompletedIffPublished ==
    [][(Returns("success") \/ Returns("generation_failed")) =>
         LET published == IF returned'.value = "success"
                          THEN Outcomes(execution'.result, {"published"}) ELSE 0
         IN  IF execution.request_data.platforms # <<>>
             THEN /\ execution'.status = "completed" <=> published >= 1
                  /\ published = 0 => /\ execution'.status = "failed"
                                      /\ execution'.error_message \notin {NoError, ""}
             ELSE /\ returned'.content_generation_passed > 0
                        => execution'.status = "completed"
                  /\ returned'.content_generation_passed = 0
                        => execution'.status = "failed"]_vars

\* C4: when an attempt with n requested channels publishes k >= 1 of them (k
\* ContentItem rows are committed) and returns, the record is completed and
\* its result holds one outcome per requested channel, in order: k published
\* and n - k failed or skipped.
C4_PartialPublishCompletes ==
    [][(Returns("success") /\ Rows(content_items') - Rows(content_items) >= 1) =>
         LET platforms == execution.request_data.platforms
             items     == execution'.result.content_items
             k         == Rows(content_items') - Rows(content_items)
         IN  /\ execution'.status = "completed"
             /\ Len(items) = Len(platforms)
             /\ \A i \in DOMAIN platforms : items[i].platform = platforms[i]
             /\ Outcomes(execution'.result, {"published"}) = k
             /\ Outcomes(execution'.result, {"failed", "skipped"}) = Len(platforms) - k]_vars

\* one of two requested channels is published, the other is not
C4_Witness ==
    /\ returned.value = "success"
    /\ execution.status = "completed"
    /\ Len(execution.request_data.platforms) = 2
    /\ Outcomes(execution.result, {"published"}) = 1
    /\ Outcomes(execution.result, {"failed"}) = 1
    /\ Rows(content_items) = 1

\* C5: when generation gives no text for any requested channel, the attempt
\* leaves the record failed with a non-empty error_message.
C5_GenerationFailureFails ==
    [][(Returns("generation_failed") /\ execution.request_data.platforms # <<>>) =>
         /\ returned'.content_generation_passed = 0
         /\ execution'.status = "failed"
         /\ execution'.error_message \notin {NoError, ""}]_vars

\* two channels requested, no text for either
C5_Witness ==
    /\ returned = Return("generation_failed", 0)
    /\ Len(execution.request_data.platforms) = 2
    /\ execution.status = "failed"
    /\ execution.error_message = GenerationError

\* C18: the Execution Record is not failed while a retry of its job is still
\* pending in the queue.
C18_NotFailedWhileRetryPending ==
    \A j \in DOMAIN jobs :
        (jobs[j].pc = "queued" /\ jobs[j].retries >= 1) => execution.status # "failed"

\* C19 as stated: the pipeline job is re-run after a failure until the cap of
\* 3 attempts is reached: when its last attempt has raised, 3 attempts were made.
C19_ThreeAttempts ==
    returned.value = "raised" => deliveries.attempts >= 3

\* C19 amended: the pipeline job is retried at most max_retries = 1 times: a
\* message never carries more than 1 retry, each delivered message is run at
\* most 2 times, and when the last attempt has raised the message was run 2
\* times.
C19_OneRetry ==
    /\ \A j \in DOMAIN jobs : jobs[j].retries <= ContentMaxRetries
    /\ deliveries.attempts <= (ContentMaxRetries + 1) * (1 + deliveries.duplicates)
    /\ returned.value = "raised" => deliveries.attempts >= ContentMaxRetries + 1

\* the first attempt and its one retry have both raised; nothing is pending
C19_Witness ==
    /\ returned.value = "raised"
    /\ deliveries.attempts = 2
    /\ deliveries.duplicates = 0
    /\ jobs = <<>>
    /\ execution.status = "failed"

\* C20: the Execution Record of a request type that is not implemented is
\* failed with an error message from the moment execute_agent has handled the
\* request: it is never running, no job is enqueued for it and no attempt is
\* made or retried.
C20_NotImplementedFails ==
    execution.request_type \notin {"none", "create_content", "create_campaign"}
        => /\ execution.status = "failed"
           /\ execution.error_message = NotImplementedText
           /\ execution.started_at = Null
           /\ execution.completed_at # Null
           /\ jobs = <<>>
           /\ deliveries = NoDeliveries
           /\ returned = NoReturn

C20_Witness ==
    /\ inbox = NoRequest
    /\ execution.request_type = "generate_report"
    /\ execution.status = "failed"
    /\ jobs = <<>>

\* C23: an execution killed by the hard time limit is retried, so the record
\* does not stay running forever: a record that is running always has a
\* message of its job running or waiting in the queue, which takes it to
\* completed or failed.
C23_RunningHasAJob ==
    execution.status = "running" => jobs # <<>>

\* C24: completed_at and the duration of a record are set once, at the first
\* transition into a terminal state: once completed_at is set, no later step
\* (retry, duplicate delivery) changes completed_at or the duration.
C24_CompletedAtSetOnce ==
    [][execution.completed_at # Null
         => /\ execution'.completed_at = execution.completed_at
            /\ execution'.execution_time_ms = execution.execution_time_ms]_vars

\* C25: started_at of a record is set once, at the first transition into
\* running: a step changes started_at only from unset and only into running,
\* a running record has started_at, and once set it keeps its value through
\* every later claim, retry and terminal write.
C25_StartedAtSetOnce ==
    [][/\ execution.started_at # Null => execution'.started_at = execution.started_at
       /\ execution'.started_at # execution.started_at => execution'.status = "running"
       /\ execution'.status = "running" => execution'.started_at # Null]_vars

\* the retry of an attempt that failed after its claim is running, and the
\* record still has the started_at of the first attempt
C25_Witness ==
    /\ execution.status = "running"
    /\ deliveries.attempts = 2
    /\ execution.started_at = Stamp(1, 1)
    /\ execution.completed_at = Stamp(1, 3)

\* C26: a record whose status is completed, failed or cancelled has
\* completed_at set, whichever path wrote the status (pipeline success,
\* generation failure, caught exception, unsupported request type).
C26_TerminalHasCompletedAt ==
    execution.status \in {"completed", "failed", "cancelled"}
        => execution.completed_at # Null

\* the first attempt raised before its claim: failed by the except-branch, with
\* completed_at and without started_at
C26_Witness ==
    /\ execution.status = "failed"
    /\ execution.error_message = ExceptionText
    /\ execution.started_at = Null
    /\ execution.completed_at = Stamp(1, 3)

\* C27: a record with status queued, running or completed has no
\* error_message.
C27_ErrorOnlyWhenFailed ==
    execution.status \in {"queued", "running", "completed"}
        => execution.error_message = NoError

\* the channel outcomes of platform p that the stored result reports published
Published(exe, p) ==
    IF exe.result.kind = "result"
    THEN Cardinality({i \in DOMAIN exe.result.content_items :
                        /\ exe.result.content_items[i].platform = p
                        /\ exe.result.content_items[i].status = "published"})
    ELSE 0

\* C30: the ContentItem rows stored for an execution correspond one-to-one to
\* the channels its result reports as published: when no attempt is in
\* flight, every platform has as many rows as published outcomes in the result.
C30_RowsMatchPublished ==
    jobs = <<>> => \A p \in PlatformNames : content_items[p] = Published(execution, p)

PostingEntries(result) ==
    {i \in DOMAIN result.tasks : result.tasks[i].task = "Platform Posting"}

\* C32: in the stored result of an execution with at least one requested
\* channel the step ledger has a Platform Posting entry, its counts passed +
\* failed + skipped equal the number of requested channels, and its failed
\* count equals the number of channel outcomes with status failed.
C32_PostingCountsAddUp ==
    (execution.result.kind = "result" /\ execution.request_data.platforms # <<>>) =>
        /\ PostingEntries(execution.result) # {}
        /\ \A i \in PostingEntries(execution.result) :
              LET counts == execution.result.tasks[i].details
              IN  /\ counts[1] + counts[2] + counts[3]
                        = Len(execution.request_data.platforms)
                  /\ counts[2] = Outcomes(execution.result, {"failed"})

\* C33: a channel for which no content was generated (generation raised or
\* returned empty text) does not stop the other channels, is not handed to a
\* publisher and is reported skipped: when an attempt reaches the final write,
\* every outcome of such a channel is skipped for lack of content and no
\* ContentItem row is added for it.
C33_NoContentIsSkipped ==
    [][Returns("success") =>
         LET platforms == execution.request_data.platforms
             result    == execution'.result
         IN  \A i \in DOMAIN platforms :
                platforms[i] \notin result.platform_contents =>
                  /\ result.content_items[i] =
                        Item(platforms[i], "skipped", "No content generated for this platform")
                  /\ content_items'[platforms[i]] = content_items[platforms[i]]]_vars

\* generation failed for the first channel, which is skipped; the second
\* channel was generated after it and published
C33_Witness ==
    /\ execution.status = "completed"
    /\ Len(execution.result.content_items) = 2
    /\ execution.result.content_items[1] =
          Item(execution.request_data.platforms[1], "skipped",
               "No content generated for this platform")
    /\ execution.result.content_items[2].status = "published"
    /\ env.integration[execution.request_data.platforms[1]] = "active"

\* C34: a requested channel with generated content and no active integration
\* is not handed to the publisher, is reported skipped with the reason that
\* no active integration was found, and the loop goes on to the next channel.
C34_NoIntegrationIsSkipped ==
    [][Returns("success") =>
         LET platforms == execution.request_data.platforms
             result    == execution'.result
         IN  /\ Len(result.content_items) = Len(platforms)
             /\ \A i \in DOMAIN platforms :
                   (platforms[i] \in result.platform_contents
                      /\ env.integration[platforms[i]] = "none") =>
                     /\ result.content_items[i] =
                           Item(platforms[i], "skipped", "No active integration found")
                     /\ content_items'[platforms[i]] = content_items[platforms[i]]]_vars

\* the first channel has content and no integration and is skipped; the
\* second channel, after it, was published
C34_Witness ==
    /\ execution.status = "completed"
    /\ Len(execution.result.content_items) = 2
    /\ execution.request_data.platforms[1] \in execution.result.platform_contents
    /\ execution.result.content_items[1] =
          Item(execution.request_data.platforms[1], "skipped",
               "No active integration found")
    /\ execution.result.content_items[2].status = "published"

\* C37: a failure of context retrieval never makes the execution fail: the
\* step in which retrieval fails leaves the record running and the attempt
\* goes on.
C37_RetrievalFailureNotFatal ==
    [][(\E j \in DOMAIN jobs : RetrievalRaises(j)) =>
          /\ execution'.status = "running"
          /\ jobs' = jobs]_vars

\* the entries of the step ledger of a stored result for one stage
Entries(result, stage) == {i \in DOMAIN result.tasks : result.tasks[i].task = stage}

\* the stage has an entry with this status in the step ledger of the result
Ledger(result, stage, status) ==
    \E i \in Entries(result, stage) : result.tasks[i].status = status

\* C38: media generation runs once per execution and its failure does not
\* abort the run: the result of an attempt that reaches the final write has
\* exactly one Image Generation and one Video Generation entry; when one of
\* them FAILED the record is still completed, the result has no URL of that
\* medium and an outcome for every requested channel, and every channel with
\* content and a complete integration was handed to the publisher (tiktok
\* only when a video was uploaded).
C38_MediaFailureDegrades ==
    [][Returns("success") =>
         LET platforms == execution.request_data.platforms
             result    == execution'.result
         IN  /\ Cardinality(Entries(result, "Image Generation")) = 1
             /\ Cardinality(Entries(result, "Video Generation")) = 1
             /\ Ledger(result, "Image Generation", "FAILED") => result.images_generated = 0
             /\ Ledger(result, "Video Generation", "FAILED") => result.videos_generated = 0
             /\ execution'.status = "completed"
             /\ Len(result.content_items) = Len(platforms)
             /\ \A i \in DOMAIN platforms :
                   (/\ platforms[i] \in result.platform_contents
                    /\ env.integration[platforms[i]] = "active"
                    /\ platforms[i] = "tiktok" => result.videos_generated = 1)
                   => \/ result.content_items[i] = Item(platforms[i], "published", "")
                      \/ result.content_items[i] = Item(platforms[i], "failed", "publisher error")]_vars

\* image generation failed and a channel was published without media
C38_Witness ==
    /\ execution.status = "completed"
    /\ Ledger(execution.result, "Image Generation", "FAILED")
    /\ execution.result.images_generated = 0
    /\ execution.result.videos_generated = 0
    /\ Outcomes(execution.result, {"published"}) >= 1

\* C39: the Execution Record of an execution that reached completed or failed
\* holds the step ledger entries of the stages that ran: a record completed
\* by the final write, or failed because no content was generated (retrieval,
\* keyword research and generation ran), has a result whose ledger has the
\* entries of these stages.
C39_TerminalHasLedger ==
    (\/ execution.status = "completed"
     \/ execution.status = "failed" /\ execution.error_message = GenerationError) =>
        /\ execution.result.kind = "result"
        /\ Entries(execution.result, "RAG Retrieval") # {}
        /\ Entries(execution.result, "Keyword Research") # {}
        /\ Entries(execution.result, "Content Generation") # {}

\* C40: an Execution Record for which a content job was enqueued reaches
\* completed or failed and stays there: once every message and retry of its
\* job has been delivered and has ended, the record is completed or failed.
C40_SettledWhenQueueEmpty ==
    (execution.request_type = "create_content" /\ execution.status # "absent"
        /\ jobs = <<>>)
      => execution.status \in {"completed", "failed"}

(***************************************************************************)
(* Properties of the scheduler, checked under SchedSpec.                   *)
(***************************************************************************)
\* C6: for one due occurrence of a schedule at most one Execution Record is
\* created, also when the poller finds the occurrence due a second time
\* before next_run_at is advanced: no two jobs enqueued for the same
\* occurrence have both created their Execution Record.
C6_NoDoubleDispatch ==
    \A i, j \in DOMAIN sjobs :
        (i # j /\ sjobs[i].due = sjobs[j].due)
            => ~(sjobs[i].pc = "dispatching" /\ sjobs[j].pc = "dispatching")

\* C7: a schedule whose failed_runs has reached the threshold is failed and
\* inactive and the due-query of the poller does not return it, whatever
\* happened since.
C7_FailedIsNeverDue ==
    post.failed_runs >= FailureThreshold
        => (post.status = "failed" /\ ~post.is_active /\ ~Due(post, now))

\* the step in which job j of execute_scheduled_post fires: it enqueues the
\* content job, commits the tracking update and returns
Fires(j) == sjobs[j].pc = "dispatching" /\ Finish(j)

\* C14: when a one_time schedule fires, it becomes completed and inactive and
\* its next_run_at keeps the value it had before the fire.
C14_OneTimeCompletes ==
    [][\A j \in DOMAIN sjobs :
          (Fires(j) /\ post.schedule_type = "one_time")
              => /\ post'.status = "completed"
                 /\ ~post'.is_active
                 /\ post'.next_run_at = post.next_run_at]_vars

\* a one_time schedule has fired once
C14_Witness ==
    /\ post.schedule_type = "one_time"
    /\ post.status = "completed"
    /\ ~post.is_active
    /\ post.successful_runs = 1
    /\ enqueued = 1
    /\ post.next_run_at = post.start_date

C15_WitnessEnded ==
    /\ post.schedule_type \in Recurring
    /\ post.end_date # None
    /\ post.successful_runs >= 1
    /\ post.status = "completed"
    /\ Before(post.end_date, post.next_run_at)

\* C17: all attempts of one dispatch of execute_scheduled_post add at most 1
\* to failed_runs: failed_runs never exceeds the number of dispatches.
C17_OneFailurePerDispatch == post.failed_runs <= dispatched

\* C21: a poller tick that finds a schedule without platforms due sets it
\* failed and inactive and changes nothing else: no Execution Record exists
\* for it, nothing is enqueued, and its counters and next_run_at are as they
\* were.
C21_NoPlatformsFailsAtOnce ==
    [][(post.platforms = <<>> /\ CheckScheduledPosts) =>
          /\ post' = [post EXCEPT !.status = "failed", !.is_active = FALSE]
          /\ post'.total_runs = 0 /\ post'.successful_runs = 0 /\ post'.failed_runs = 0
          /\ post'.next_run_at = post.next_run_at
          /\ sjobs' = <<>> /\ dispatched' = 0
          /\ created' = 0 /\ enqueued' = 0]_vars

\* a schedule without platforms that a tick has set failed
C21_Witness ==
    /\ post.platforms = <<>>
    /\ post.status = "failed"
    /\ ~post.is_active
    /\ post.total_runs = 0
    /\ created = 0
    /\ dispatched = 0

C28_RunsAddUp == post.total_runs = post.successful_runs + post.failed_runs

\* C29: a one_time schedule has at most one Execution Record and at most one
\* content job enqueued.
C29_OneTimeFiresOnce ==
    post.schedule_type = "one_time" => (created <= 1 /\ enqueued <= 1)

\* C35: successful_runs of a schedule equals the number of Execution Records
\* created and of content jobs enqueued on its behalf, whenever no
\* execute_scheduled_post job is queued or running, also after attempts that
\* failed after the content job was enqueued and were retried.
C35_SuccessfulRunsCountExecutions ==
    sjobs = <<>> => (post.successful_runs = created /\ post.successful_runs = enqueued)

\* C36: every next_run_at stored for a daily, weekly or monthly schedule, at
\* creation and after each fire, has the time of day schedule_config.hour :
\* schedule_config.minute.
C36_NextRunAtConfiguredTime ==
    (post.schedule_type \in Recurring /\ post.next_run_at # None) =>
        /\ post.next_run_at.hour = post.schedule_config.hour
        /\ post.next_run_at.minute = post.schedule_config.minute

(***************************************************************************)
(* Properties of a fired schedule and its execution, checked under         *)
(* FireSpec.                                                               *)
(***************************************************************************)
\* C16: when the last attempt of the content job of a schedule's execution has
\* raised (the retries are used up), the Execution Record is failed with the
\* error message of that attempt and failed_runs of the schedule has been
\* incremented.
C16_FinalFailureCounts ==
    returned.value = "raised"
        => /\ execution.status = "failed"
           /\ execution.error_message = ExceptionText
           /\ post.failed_runs >= 1

====
